---- MODULE Spec2Model ----
(***************************************************************************)
(* Model of social_media_scheduler.py: the calendar store, the three       *)
(* ledger files, the platform adapter (tweepy client) and the scheduler    *)
(* processes (auto_schedule_publish, post_now) with their local variables. *)
(*                                                                         *)
(* Strings that the code inspects character by character (the content      *)
(* column) are sequences of one-character strings.  Strings that the code  *)
(* only compares or copies (dates, platforms, statuses) are TLA+ strings.  *)
(* The check-mark and cross glyphs of the status labels are left out.      *)
(*                                                                         *)
(* Files are modelled as the rows csv.reader yields and csv.writer takes;  *)
(* quoting and line endings of the csv layer are not modelled.  Timestamps *)
(* (datetime.now()) of ledger records are left out.  Every adapter call    *)
(* (update_status, get_status) and get_twitter_client can fail.            *)
(* setup() (virtual environment, packages, .env) is not modelled.          *)
(*                                                                         *)
(* run and auto_attempts are history variables: they record what a run     *)
(* did (the calendar it loaded, its calls of safe_publish and of the       *)
(* adapter, the operator's input) and are read by no action.               *)
(*                                                                         *)
(* Specifications:                                                         *)
(*   Spec         runs of both entry points, one after the other           *)
(*   SpecPair     two auto_schedule_publish runs, one after the other      *)
(*   SpecCrash    SpecPair with the running process killed at any point    *)
(*   SpecOverlap  two live auto_schedule_publish runs, steps interleaved   *)
(*   SpecLong     one run on a calendar with texts around 280 characters   *)
(***************************************************************************)
EXTENDS Integers, Sequences, FiniteSets, TLC

\* ------------------------------------------------------------------ bounds
MaxRows == 2        \* rows of the initial calendar
MaxRuns == 2        \* scheduler invocations in one behaviour
MaxOverlapRows == 1 \* rows of the calendar of two overlapping invocations
MaxOver == 2        \* characters by which a text exceeds the limit of 280

\* ------------------------------------------------------- program constants
TweetLimit   == 280
TruncateKeep == 277
PreviewLen   == 100
MinColumns   == 4

StatusTrigger == "Post Now"
StatusPosted  == "Posted"
StatusDryRun  == "Dry Run"
StatusError   == "Error (will retry)"

XTweet  == "X Tweet"
XThread == "X Thread"
valid_platforms == {XTweet, XThread}

None == "None"
InvalidDate == -1

Ellipsis == <<".", ".", ".">>

\* ------------------------------------------------------------ string helpers
Min(a, b) == IF a < b THEN a ELSE b

IsSpace(c) == c \in {" ", "\t", "\n", "\r", "\f"}

\* the first position from i on that holds no whitespace (Len(s) + 1: none)
RECURSIVE FirstNonSpace(_, _)
FirstNonSpace(s, i) ==
    IF i > Len(s) THEN i
    ELSE IF IsSpace(s[i]) THEN FirstNonSpace(s, i + 1) ELSE i

\* the last position up to i that holds no whitespace (0: none)
RECURSIVE LastNonSpace(_, _)
LastNonSpace(s, i) ==
    IF i < 1 THEN i
    ELSE IF IsSpace(s[i]) THEN LastNonSpace(s, i - 1) ELSE i

\* str.strip()
Strip(s) == SubSeq(s, FirstNonSpace(s, 1), LastNonSpace(s, Len(s)))

\* positions at which the delimiter "|||" starts
DelimAt(s) == {i \in 1..(Len(s) - 2) : s[i] = "|" /\ s[i+1] = "|" /\ s[i+2] = "|"}

\* str.split("|||"): leftmost, non-overlapping
RECURSIVE Split(_)
Split(s) ==
    IF DelimAt(s) = {} THEN <<s>>
    ELSE LET j == CHOOSE i \in DelimAt(s) : \A k \in DelimAt(s) : i <= k
         IN  <<SubSeq(s, 1, j - 1)>> \o Split(SubSeq(s, j + 3, Len(s)))

NonEmpty(s) == s # <<>>

\* [part.strip() for part in content.split("|||") if part.strip()]
ThreadParts(content) ==
    LET raw == Split(content)
    IN  SelectSeq([i \in 1..Len(raw) |-> Strip(raw[i])], NonEmpty)

\* mutant: the text is cut at the limit and the marker added to that
TruncateAtLimit(content) ==
    IF Len(content) > TweetLimit
    THEN SubSeq(content, 1, TweetLimit) \o Ellipsis
    ELSE content

\* if len(content) > 280: content = content[:277] + "..."
Truncate(content) ==
    IF Len(content) > TweetLimit
    THEN SubSeq(content, 1, TruncateKeep) \o Ellipsis
    ELSE content

\* content[:100]
Preview(content) == SubSeq(content, 1, Min(PreviewLen, Len(content)))

\* ------------------------------------------------------------------- dates
\* datetime.strptime(s, "%Y-%m-%d").date(): the day number of the date the
\* string denotes, or InvalidDate.  %m and %d accept one or two digits, so
\* two different strings can denote the same day.
ParseDate(s) ==
    CASE s = "2023-12-15" -> 0
      [] s = "2024-01-05" -> 1
      [] s = "2024-1-5"   -> 1
      [] s = "2024-01-06" -> 2
      [] s = "2024-01-07" -> 3
      [] OTHER            -> InvalidDate

\* ------------------------------------------------- environment and arguments
\* values of the DRY_RUN variable in the process environment at start
EnvValues == {"unset", "True", "False"}

\* argparse flags (store_true, not declared mutually exclusive)
Args == [dry_run : BOOLEAN, live_run : BOOLEAN, post_now : BOOLEAN]

Lower(s) ==
    CASE s = "True"  -> "true"
      [] s = "False" -> "false"
      [] OTHER       -> s

\* os.environ.get('DRY_RUN', 'True').lower() == 'true'
EnvDryRun(env) == Lower(IF env = "unset" THEN "True" ELSE env) = "true"

\* if args.dry_run: environ = 'True' elif args.live_run: environ = 'False'
SetEnviron(env, a) ==
    IF a.dry_run THEN "True" ELSE IF a.live_run THEN "False" ELSE env

\* the flag the entry points read: dry_run = DRY_RUN (the module global)
ReadDryRun(DRY_RUN, environ) == DRY_RUN

\* --------------------------------------------------------------- validation
Err(i, text)  == [row |-> i, text |-> text]

\* the errors validate_content_calendar reports for one row (i: its number)
RowErrors(i, row) ==
    IF Len(row) < MinColumns THEN <<Err(i, "Insufficient columns")>>
    ELSE
      (IF ParseDate(row[1]) = InvalidDate
       THEN <<Err(i, "Invalid date format")>> ELSE <<>>)
      \o
      (IF row[2] \notin valid_platforms
       THEN <<Err(i, "Invalid platform")>> ELSE <<>>)
      \o
      (IF row[3] = <<>> \/ Strip(row[3]) = <<>>
       THEN <<Err(i, "Content is empty")>>
       ELSE IF row[2] = XTweet /\ Len(row[3]) > TweetLimit THEN <<>>
       ELSE IF row[2] = XThread /\ ThreadParts(row[3]) = <<>>
       THEN <<Err(i, "Thread content is empty after splitting")>>
       ELSE <<>>)

\* the warnings validate_content_calendar reports for one row
RowWarnings(i, row) ==
    IF Len(row) < MinColumns THEN <<>>
    ELSE IF row[3] = <<>> \/ Strip(row[3]) = <<>> THEN <<>>
    ELSE IF row[2] = XTweet /\ Len(row[3]) > TweetLimit
    THEN <<Err(i, "Tweet content exceeds 280 characters")>>
    ELSE IF row[2] = XThread
    THEN LET parts == ThreadParts(row[3])
             long(j) == Len(parts[j]) > TweetLimit
             RECURSIVE W(_)
             W(j) == IF j > Len(parts) THEN <<>>
                     ELSE (IF long(j)
                           THEN <<Err(i, "Thread part exceeds 280 characters")>>
                           ELSE <<>>) \o W(j + 1)
         IN  W(1)
    ELSE <<>>

RECURSIVE CollectErrors(_, _)
CollectErrors(rows, n) ==
    IF n > Len(rows) THEN <<>>
    ELSE RowErrors(n + 1, rows[n]) \o CollectErrors(rows, n + 1)

RECURSIVE CollectWarnings(_, _)
CollectWarnings(rows, n) ==
    IF n > Len(rows) THEN <<>>
    ELSE RowWarnings(n + 1, rows[n]) \o CollectWarnings(rows, n + 1)

\* validate_content_calendar(rows): rows are numbered from 2
validate_content_calendar(rows) ==
    [errors |-> CollectErrors(rows, 1), warnings |-> CollectWarnings(rows, 1)]

\* mutant: the run goes on after validation errors
BlocksRunNever(v) == FALSE

\* if errors: ... return (lines 265-270)
BlocksRun(v) == v.errors # <<>>

\* ------------------------------------------------------------------ due rows
\* mutant: the planned date is not compared with today
IsDueAnyDate(row, today) ==
    /\ Len(row) >= MinColumns
    /\ ParseDate(row[1]) # InvalidDate
    /\ row[4] = StatusTrigger

\* mutant: rows labelled "Error (will retry)" are retried
IsDueOrRetry(row, today) ==
    /\ Len(row) >= MinColumns
    /\ ParseDate(row[1]) # InvalidDate
    /\ row[4] \in {StatusTrigger, StatusError}
    /\ ParseDate(row[1]) = today

\* mutant: rows labelled "Dry Run" are published by the next run
IsDueOrDryRun(row, today) ==
    /\ Len(row) >= MinColumns
    /\ ParseDate(row[1]) # InvalidDate
    /\ row[4] \in {StatusTrigger, StatusDryRun}
    /\ ParseDate(row[1]) = today

\* len(row) >= 4, the date parses, status == "Post Now" and planned_date == today
IsDue(row, today) ==
    /\ Len(row) >= MinColumns
    /\ ParseDate(row[1]) # InvalidDate
    /\ row[4] = StatusTrigger
    /\ ParseDate(row[1]) = today

\* "Posted" in result
HasPosted(result) == result = StatusPosted

\* ------------------------------------------------------------------- files
Header == <<"date_planned", "platform", "content", "status">>

SampleTweet ==
    <<"T", "h", "i", "s", " ", "i", "s", " ", "a", " ", "t", "e", "s", "t",
    " ", "t", "w", "e", "e", "t", " ", "-", " ", "r", "e", "p", "l", "a",
    "c", "e", " ", "w", "i", "t", "h", " ", "y", "o", "u", "r", " ", "c",
    "o", "n", "t", "e", "n", "t", "!">>

SampleThread ==
    <<"F", "i", "r", "s", "t", " ", "p", "a", "r", "t", " ", "o", "f", " ",
    "m", "y", " ", "t", "h", "r", "e", "a", "d", "|", "|", "|", "S", "e",
    "c", "o", "n", "d", " ", "p", "a", "r", "t", " ", "w", "i", "t", "h",
    " ", "m", "o", "r", "e", " ", "d", "e", "t", "a", "i", "l", "s", "|",
    "|", "|", "F", "i", "n", "a", "l", " ", "p", "a", "r", "t", " ", "w",
    "i", "t", "h", " ", "a", " ", "c", "a", "l", "l", " ", "t", "o", " ",
    "a", "c", "t", "i", "o", "n">>

\* a file of rows: exists = FALSE is "no such file"
NoFile == [exists |-> FALSE, lines |-> <<>>]
File(lines) == [exists |-> TRUE, lines |-> lines]

\* mutant: the new calendar gets the header only
SampleCalendarHeaderOnly == File(<<Header>>)

\* the calendar auto_schedule_publish writes when there is none
SampleCalendar ==
    File(<< Header,
            <<"2023-12-15", XTweet,  SampleTweet,  StatusTrigger>>,
            <<"2023-12-15", XThread, SampleThread, StatusTrigger>> >>)

\* a ledger file: header = TRUE when its first line is the column header
\* (written by ensure_log_files), recs its records in order.  A file the
\* append functions created has no header line.
NoLog == [header |-> FALSE, recs |-> <<>>]
LogExists(f) == f.header \/ f.recs # <<>>

\* ensure_log_files, for one file
EnsureLog(f) == IF LogExists(f) THEN f ELSE [f EXCEPT !.header = TRUE]

NA == <<"N/A">>
DryRunId == <<"DryRun">>

\* log_success: writerow([now, platform, content[:100], "Posted", post_id or "N/A"])
log_success(f, platform, content, post_id) ==
    [f EXCEPT !.recs = Append(@, [platform |-> platform,
                                  preview  |-> Preview(content),
                                  status   |-> StatusPosted,
                                  post_id  |-> IF post_id = <<>> THEN NA ELSE post_id])]

\* mutant: the error record is not written
log_error_lost(f, platform, content, error_message) == f

\* log_error: writerow([now, platform, content[:100], error_message, "No"])
log_error(f, platform, content, error_message) ==
    [f EXCEPT !.recs = Append(@, [platform |-> platform,
                                  preview  |-> Preview(content),
                                  error    |-> error_message,
                                  resolved |-> "No"])]

\* log_analytics: writerow([now, platform, post_id] + metrics)
log_analytics(f, platform, post_id) ==
    [f EXCEPT !.recs = Append(@, [platform |-> platform, post_id |-> post_id])]

\* ",".join(tweet_ids): a comma separated string of identifiers is the
\* sequence of the identifiers
JoinIds(tweet_ids) == tweet_ids

\* --------------------------------------------------------------- safe_publish
ClientError == "Twitter client not initialized"
AdapterError == "adapter error"

\* mutant: the dry-run test is missing
IsDryRunNever(dry_run) == FALSE

\* if dry_run: (line 122)
IsDryRun(dry_run) == dry_run

\* if platform == "X Thread": (line 128)
IsThread(platform) == platform = XThread

\* mutant: a plain else instead of the test for "X Tweet"
IsTweetElse(platform) == TRUE

\* elif platform == "X Tweet": (line 140)
IsTweet(platform) == platform = XTweet

\* What safe_publish does before any adapter call:
\*   "return": return result without touching a ledger
\*   "raise" : an exception reaches the except clause (log_error, Error label)
\*   "call"  : update_status is called for each text of texts
PublishPlan(platform, content, dry_run, client_ok) ==
    IF IsDryRun(dry_run)
    THEN [kind |-> "return", result |-> StatusDryRun, error |-> <<>>, texts |-> <<>>]
    ELSE IF IsThread(platform)
    THEN IF ThreadParts(content) = <<>>
         THEN [kind |-> "raise", result |-> StatusError,
               error |-> <<"Thread content is empty after splitting">>, texts |-> <<>>]
         ELSE IF ~client_ok
         THEN [kind |-> "raise", result |-> StatusError,
               error |-> <<"Thread posting failed", ClientError>>, texts |-> <<>>]
         ELSE [kind |-> "call", result |-> None, error |-> <<>>,
               texts |-> ThreadParts(content)]
    ELSE IF IsTweet(platform)
    THEN IF ~client_ok
         THEN [kind |-> "raise", result |-> StatusError,
               error |-> <<"Tweet posting failed", ClientError>>, texts |-> <<>>]
         ELSE [kind |-> "call", result |-> None, error |-> <<>>,
               texts |-> <<content>>]
    ELSE [kind |-> "raise", result |-> StatusError,
          error |-> <<"Unsupported platform", platform>>, texts |-> <<>>]

\* the error text of a failed adapter call, as safe_publish logs it
CallFailed(platform) ==
    IF IsThread(platform) THEN <<"Thread posting failed", AdapterError>>
    ELSE <<"Tweet posting failed", AdapterError>>

\* mutant: every later part replies to the first post of the thread
ReplyToRoot(k, tweet_ids, previous_tweet_id) ==
    IF k = 1 THEN None ELSE tweet_ids[1]

\* in_reply_to_status_id of the call for part k (None: a standalone post)
ReplyTarget(k, tweet_ids, previous_tweet_id) ==
    IF k = 1 THEN None ELSE previous_tweet_id

\* the loop of publish_thread goes on after part k was posted
MoreParts(k, thread_parts) == k < Len(thread_parts)

\* mutant: only the first identifier of a thread is recorded
SuccessPostIdRoot(platform, tweet_ids) == <<tweet_ids[1]>>

\* post_id safe_publish hands to log_success
SuccessPostId(platform, tweet_ids) ==
    IF IsThread(platform) THEN JoinIds(tweet_ids) ELSE <<tweet_ids[1]>>

\* ------------------------------------------------------------------- state
Procs == {1, 2}         \* scheduler processes that can be started
SeqProcs == {1}         \* the process the operator starts, one run at a time

VARIABLES
    calendar,        \* content_calendar.csv
    success_log,     \* success_log.csv
    error_log,       \* error_log.csv
    analytics_log,   \* analytics_log.csv
    posts,           \* the posts on the platform, in posting order
    clock,           \* the current day
    nruns,           \* invocations started so far
    proc,            \* proc[p]: the local variables of process p
    run,             \* history of the current (or last) run of process p
    auto_attempts    \* history: the rows auto_schedule_publish handed to
                     \* safe_publish, over all runs

vars == <<calendar, success_log, error_log, analytics_log, posts, clock,
          nruns, proc, run, auto_attempts>>

NoArgs == [dry_run |-> FALSE, live_run |-> FALSE, post_now |-> FALSE]

\* what int() does not take (also: nothing typed yet)
NotANumber == -1

Idle ==
    [pc |-> "idle", args |-> NoArgs, environ |-> "unset", DRY_RUN |-> TRUE,
     entry |-> "none", dry_run |-> TRUE, today |-> 0,
     header |-> <<>>, rows |-> <<>>, i |-> 0, posted_count |-> 0,
     thread_parts |-> <<>>, k |-> 0, tweet_ids |-> <<>>,
     previous_tweet_id |-> None, post_ids |-> <<>>, a |-> 0,
     input |-> NotANumber]

NoRun ==
    [entry |-> "none", dry_run |-> TRUE, today |-> 0, before |-> NoFile,
     ended |-> "none", attempts |-> <<>>, calls |-> <<>>,
     s0 |-> 0, e0 |-> 0, input |-> NotANumber]

\* contents of the rows of the initial calendars
ContentA      == <<"a">>
ContentThread == <<"a", " ", "|", "|", "|", " ", "b", "|", "|", "|", "c">>
ContentDelims == <<"|", "|", "|">>
ContentLong   == [n \in 1..(TweetLimit + 1) |-> "x"]

\* the rows the initial calendars are made of, in calendar order
RowList ==
    << <<"2024-01-05", XTweet,     ContentA,      StatusTrigger>>,
       <<"2024-1-5",   XThread,    ContentThread, StatusTrigger>>,
       <<"2023-12-15", XTweet,     ContentLong,   StatusTrigger>>,
       <<"05-01-2024", XTweet,     ContentA,      StatusTrigger>>,
       <<"2024-01-06", "Facebook", ContentA,      StatusTrigger>>,
       <<"2024-01-05", XThread,    ContentDelims, StatusTrigger>>,
       <<"2024-01-05", XTweet>> >>

\* the rows of RowList at the positions of pick, in their order
RECURSIVE Pick(_, _)
Pick(pick, n) ==
    IF n > Len(RowList) THEN <<>>
    ELSE (IF n \in pick THEN <<RowList[n]>> ELSE <<>>) \o Pick(pick, n + 1)

\* the initial calendars: no file, or the header and at most MaxRows rows
Calendars ==
    {NoFile} \cup
    {File(<<Header>> \o Pick(pick, 1)) :
        pick \in {q \in SUBSET (1..Len(RowList)) : Cardinality(q) <= MaxRows}}

\* the days the clock passes through: from the first run's day to the last
\* day a row of the initial calendars is planned for
Days == {ParseDate(RowList[n][1]) : n \in 1..Len(RowList)} \ {InvalidDate}

Init ==
    /\ calendar \in Calendars
    /\ success_log = NoLog
    /\ error_log = NoLog
    /\ analytics_log = NoLog
    /\ posts = <<>>
    /\ clock = 1
    /\ nruns = 0
    /\ proc = [p \in Procs |-> Idle]
    /\ run = [p \in Procs |-> NoRun]
    /\ auto_attempts = <<>>

Running(p) == proc[p].pc \notin {"idle", "exit"}

\* the process ends: its locals are gone
Exit == [Idle EXCEPT !.pc = "exit"]

Ended(p, why) == [run[p] EXCEPT !.ended = why]

\* ------------------------------------------------------------------ actions
\* the clock reaches the next day (between runs)
Tick ==
    /\ clock + 1 \in Days
    /\ \A p \in Procs : ~Running(p)
    /\ clock' = clock + 1
    /\ UNCHANGED <<calendar, success_log, error_log, analytics_log, posts,
                   nruns, proc, run, auto_attempts>>

\* Module import (DRY_RUN is read from the environment), __main__ (the flags
\* set os.environ and pick the entry point) and the entry point's first
\* statements (dry_run = DRY_RUN, today = now().date()).
Invoke(p, env, a) ==
    /\ ~Running(p)
    /\ nruns < MaxRuns
    /\ nruns' = nruns + 1
    /\ LET DRY_RUN == EnvDryRun(env)
           environ == SetEnviron(env, a)
           entry   == IF a.post_now THEN "post_now" ELSE "auto"
           dry     == ReadDryRun(DRY_RUN, environ)
       IN  /\ proc' = [proc EXCEPT ![p] =
                 [Idle EXCEPT !.pc = entry, !.args = a, !.environ = environ,
                              !.DRY_RUN = DRY_RUN, !.entry = entry,
                              !.dry_run = dry, !.today = clock]]
           /\ run' = [run EXCEPT ![p] =
                 [NoRun EXCEPT !.entry = entry, !.dry_run = dry, !.today = clock,
                               !.ended = "running",
                               !.s0 = Len(success_log.recs),
                               !.e0 = Len(error_log.recs)]]
    /\ UNCHANGED <<calendar, success_log, error_log, analytics_log, posts,
                   clock, auto_attempts>>

\* the flags and the environment are not read after the entry point started
Started(l) == [l EXCEPT !.args = NoArgs, !.environ = "unset", !.DRY_RUN = TRUE]

\* auto_schedule_publish, lines 236-272: ensure_log_files, the sample
\* calendar when there is none, load, validate
AutoLoad(p) ==
    /\ proc[p].pc = "auto"
    /\ success_log' = EnsureLog(success_log)
    /\ error_log' = EnsureLog(error_log)
    /\ analytics_log' = EnsureLog(analytics_log)
    /\ IF ~calendar.exists
       THEN /\ calendar' = SampleCalendar
            /\ proc' = [proc EXCEPT ![p] = Exit]
            /\ run' = [run EXCEPT ![p] = Ended(p, "bootstrap")]
       ELSE /\ UNCHANGED calendar
            /\ IF Len(calendar.lines) < 2
               THEN /\ proc' = [proc EXCEPT ![p] = Exit]
                    /\ run' = [run EXCEPT ![p] =
                                 [Ended(p, "empty") EXCEPT !.before = calendar]]
               ELSE LET rows == Tail(calendar.lines)
                        v == validate_content_calendar(rows)
                    IN  IF BlocksRun(v)
                        THEN /\ proc' = [proc EXCEPT ![p] = Exit]
                             /\ run' = [run EXCEPT ![p] =
                                   [Ended(p, "invalid") EXCEPT !.before = calendar]]
                        ELSE /\ proc' = [proc EXCEPT ![p] =
                                   [Started(proc[p]) EXCEPT
                                       !.pc = "loop",
                                       !.header = Head(calendar.lines),
                                       !.rows = rows, !.i = 1,
                                       !.posted_count = 0]]
                             /\ run' = [run EXCEPT ![p].before = calendar]
    /\ UNCHANGED <<posts, clock, nruns, auto_attempts>>

\* mutant: auto_schedule_publish leaves its loop after a failed attempt
AfterAttemptStopOnError(l, result) ==
    LET back == [l EXCEPT !.rows[l.i][4] = result,
                          !.thread_parts = <<>>, !.k = 0, !.tweet_ids = <<>>,
                          !.previous_tweet_id = None]
    IN  IF l.entry = "auto"
        THEN [back EXCEPT !.posted_count = IF result = StatusPosted THEN @ + 1 ELSE @,
                          !.i = IF result = StatusError THEN Len(l.rows) + 1 ELSE @ + 1,
                          !.pc = "loop"]
        ELSE [back EXCEPT !.pc = "persist"]

\* what the caller of safe_publish does with the label it returns:
\* auto_schedule_publish lines 287-292, post_now line 338
AfterAttempt(l, result) ==
    LET back == [l EXCEPT !.rows[l.i][4] = result,
                          !.thread_parts = <<>>, !.k = 0, !.tweet_ids = <<>>,
                          !.previous_tweet_id = None]
    IN  IF l.entry = "auto"
        THEN [back EXCEPT !.posted_count = IF HasPosted(result) THEN @ + 1 ELSE @,
                          !.i = @ + 1, !.pc = "loop"]
        ELSE [back EXCEPT !.pc = "persist"]

\* history: safe_publish is entered for row l.i
NewAttempt(p, l, platform, content) ==
    [row |-> l.i, platform |-> platform, content |-> content,
     dry_run |-> l.dry_run, result |-> "pending",
     s0 |-> Len(success_log.recs), e0 |-> Len(error_log.recs),
     c0 |-> Len(run[p].calls), s1 |-> 0, e1 |-> 0, c1 |-> 0]

\* safe_publish returns result to its caller, the ledgers being slog and elog
Return(p, l, g, result, slog, elog) ==
    /\ success_log' = slog
    /\ error_log' = elog
    /\ proc' = [proc EXCEPT ![p] = AfterAttempt(l, result)]
    /\ run' = [run EXCEPT ![p] =
          [g EXCEPT !.attempts[Len(g.attempts)] =
              [@ EXCEPT !.result = result, !.s1 = Len(slog.recs),
                        !.e1 = Len(elog.recs), !.c1 = Len(g.calls)]]]

\* mutant: the except clause names ValueError only
CatchesValueError(error) ==
    error[1] \in {"Unsupported platform", "Thread content is empty after splitting"}

\* except Exception as e: (line 154) takes every exception of the try block
Catches(error) == TRUE

\* an exception with the text error is raised inside the try block of
\* safe_publish: caught, it is logged and the error label returned (lines
\* 154-156); not caught, it would leave safe_publish and end the run with
\* nothing written (a traceback in auto_schedule_publish, line 349 in post_now)
Raise(p, l, g, platform, content, error) ==
    IF Catches(error)
    THEN Return(p, l, g, StatusError, success_log,
                log_error(error_log, platform, content, error))
    ELSE /\ proc' = [proc EXCEPT ![p] = Exit]
         /\ run' = [run EXCEPT ![p] =
               [g EXCEPT !.ended = "crashed",
                         !.attempts[Len(g.attempts)].result = "raised"]]
         /\ UNCHANGED <<success_log, error_log>>

\* safe_publish, up to its first adapter call (get_twitter_client may fail)
StartPublish(p, l, platform, content) ==
    /\ auto_attempts' = IF l.entry = "auto" THEN Append(auto_attempts, l.i)
                        ELSE auto_attempts
    /\ \E client_ok \in BOOLEAN :
         LET plan == PublishPlan(platform, content, l.dry_run, client_ok)
             g == [run[p] EXCEPT !.attempts =
                       Append(@, NewAttempt(p, l, platform, content)),
                                 !.input = l.input]
         IN  CASE plan.kind = "return" ->
                    Return(p, l, g, plan.result, success_log, error_log)
               [] plan.kind = "raise" ->
                    Raise(p, l, g, platform, content, plan.error)
               [] plan.kind = "call" ->
                    /\ proc' = [proc EXCEPT ![p] =
                          [l EXCEPT !.pc = "publish", !.thread_parts = plan.texts,
                                    !.k = 1, !.tweet_ids = <<>>,
                                    !.previous_tweet_id = None]]
                    /\ run' = [run EXCEPT ![p] = g]
                    /\ UNCHANGED <<success_log, error_log>>

\* mutant: the loop looks at the row as the store holds it now
RowAtStored(rows, stored, i) ==
    IF stored.exists /\ i + 1 <= Len(stored.lines) THEN stored.lines[i + 1]
    ELSE rows[i]

\* for i, row in enumerate(rows, start=1): the row of the list that was
\* loaded at lines 249-256, whatever the store holds by now
RowAt(rows, stored, i) == rows[i]

\* one iteration of the loop of auto_schedule_publish, lines 273-292
AutoRow(p) ==
    LET l == proc[p] IN
    /\ l.pc = "loop"
    /\ l.i <= Len(l.rows)
    /\ IF IsDue(RowAt(l.rows, calendar, l.i), l.today)
       THEN StartPublish(p, l, l.rows[l.i][2], l.rows[l.i][3])
       ELSE /\ proc' = [proc EXCEPT ![p].i = @ + 1]
            /\ UNCHANGED <<success_log, error_log, run, auto_attempts>>
    /\ UNCHANGED <<calendar, analytics_log, posts, clock, nruns>>

\* the identifier the platform gives the next post
NewId == ToString(Len(posts) + 1)

\* one update_status call of publish_tweet or publish_thread, and what
\* follows it up to the next call or to the return of safe_publish
AdapterCall(p) ==
    LET l == proc[p]
        platform == l.rows[l.i][2]
        content == l.rows[l.i][3]
        text == Truncate(l.thread_parts[l.k])
        reply == ReplyTarget(l.k, l.tweet_ids, l.previous_tweet_id)
    IN
    /\ l.pc = "publish"
    /\ \E ok \in BOOLEAN :
         LET g == [run[p] EXCEPT !.calls =
                      Append(@, [op |-> "update_status", text |-> text,
                                 reply_to |-> reply, ok |-> ok,
                                 id |-> IF ok THEN NewId ELSE None])]
             ids == Append(l.tweet_ids, NewId)
         IN  IF ok
             THEN /\ posts' = Append(posts, [id |-> NewId, text |-> text,
                                             reply_to |-> reply])
                  /\ IF MoreParts(l.k, l.thread_parts)
                     THEN /\ proc' = [proc EXCEPT ![p] =
                                [l EXCEPT !.k = @ + 1, !.tweet_ids = ids,
                                          !.previous_tweet_id = NewId]]
                          /\ run' = [run EXCEPT ![p] = g]
                          /\ UNCHANGED <<success_log, error_log>>
                     ELSE Return(p, l, g, StatusPosted,
                                 log_success(success_log, platform, content,
                                             SuccessPostId(platform, ids)),
                                 error_log)
             ELSE /\ UNCHANGED posts
                  /\ Raise(p, l, g, platform, content, CallFailed(platform))
    /\ UNCHANGED <<calendar, analytics_log, clock, nruns, auto_attempts>>

\* the analytics pass follows the rewrite of the calendar
RunsAnalytics(entry, dry_run, posted_count) ==
    entry = "auto" /\ ~dry_run /\ posted_count > 0

\* mutant: the header line is not written back
RewriteRowsOnly(header, rows) == File(rows)

\* writer.writerow(header); writer.writerows(rows) on the file opened with "w"
Rewrite(header, rows) == File(<<header>> \o rows)

\* the calendar is rewritten: header and all rows (lines 294-297, 340-343)
Persist(p) ==
    LET l == proc[p] IN
    /\ \/ l.pc = "loop" /\ l.i > Len(l.rows)
       \/ l.pc = "persist"
    /\ calendar' = Rewrite(l.header, l.rows)
    /\ IF RunsAnalytics(l.entry, l.dry_run, l.posted_count)
       THEN /\ proc' = [proc EXCEPT ![p].pc = "analytics"]
            /\ UNCHANGED run
       ELSE /\ proc' = [proc EXCEPT ![p] = Exit]
            /\ run' = [run EXCEPT ![p] = Ended(p, "completed")]
    /\ UNCHANGED <<success_log, error_log, analytics_log, posts, clock, nruns,
                   auto_attempts>>

\* the lines of success_log.csv after next(reader) dropped the first one
AfterFirstLine(f) == IF f.header THEN f.recs ELSE Tail(f.recs)

\* row[4] and row[4] != "N/A" and row[4] != "DryRun"
Tracked(rec) == rec.post_id # <<>> /\ rec.post_id # NA /\ rec.post_id # DryRunId

\* post_ids of track_analytics: (platform, post id) of the tracked records
PostIds(f) ==
    LET kept == SelectSeq(AfterFirstLine(f), Tracked)
    IN  [n \in 1..Len(kept) |-> <<kept[n].platform, kept[n].post_id>>]

\* track_analytics up to its first get_status call
TrackStart(p) ==
    /\ proc[p].pc = "analytics"
    /\ \E client_ok \in BOOLEAN :
         IF client_ok /\ LogExists(success_log) /\ PostIds(success_log) # <<>>
         THEN /\ proc' = [proc EXCEPT ![p].pc = "tracking",
                                      ![p].post_ids = PostIds(success_log),
                                      ![p].a = 1]
              /\ UNCHANGED run
         ELSE /\ proc' = [proc EXCEPT ![p] = Exit]
              /\ run' = [run EXCEPT ![p] = Ended(p, "completed")]
    /\ UNCHANGED <<calendar, success_log, error_log, analytics_log, posts,
                   clock, nruns, auto_attempts>>

\* get_status can answer only for the identifier of one post
KnownStatus(post_id) ==
    Len(post_id) = 1 /\ \E n \in 1..Len(posts) : posts[n].id = post_id[1]

\* one iteration of the loop of track_analytics, lines 211-223
TrackCall(p) ==
    LET l == proc[p]
        platform == l.post_ids[l.a][1]
        post_id == l.post_ids[l.a][2]
        last == l.a = Len(l.post_ids)
    IN
    /\ l.pc = "tracking"
    /\ \E ok \in BOOLEAN :
         /\ ok => platform \in valid_platforms /\ KnownStatus(post_id)
         /\ analytics_log' = IF ok THEN log_analytics(analytics_log, platform, post_id)
                             ELSE analytics_log
         /\ run' = [run EXCEPT ![p] =
               [(IF last THEN Ended(p, "completed") ELSE run[p]) EXCEPT !.calls =
                   IF platform \in valid_platforms
                   THEN Append(@, [op |-> "get_status", text |-> post_id,
                                   reply_to |-> None, ok |-> ok, id |-> None])
                   ELSE @]]
    /\ proc' = [proc EXCEPT ![p] = IF last THEN Exit ELSE [l EXCEPT !.a = @ + 1]]
    /\ UNCHANGED <<calendar, success_log, error_log, posts, clock, nruns,
                   auto_attempts>>

\* post_now, lines 310-321: the calendar is read and listed
PostNowLoad(p) ==
    /\ proc[p].pc = "post_now"
    /\ IF ~calendar.exists
       THEN /\ proc' = [proc EXCEPT ![p] = Exit]
            /\ run' = [run EXCEPT ![p] = Ended(p, "no calendar")]
       ELSE IF calendar.lines = <<>>
       THEN /\ proc' = [proc EXCEPT ![p] = Exit]
            /\ run' = [run EXCEPT ![p] =
                         [Ended(p, "crashed") EXCEPT !.before = calendar]]
       ELSE /\ proc' = [proc EXCEPT ![p] =
                  [Started(proc[p]) EXCEPT !.pc = "select",
                                           !.header = Head(calendar.lines),
                                           !.rows = Tail(calendar.lines)]]
            /\ run' = [run EXCEPT ![p].before = calendar]
    /\ UNCHANGED <<calendar, success_log, error_log, analytics_log, posts,
                   clock, nruns, auto_attempts>>

\* what the operator can type at the prompt: a row number or something else
Inputs(rows) == {NotANumber} \cup (0..(Len(rows) + 1))

\* mutant: only a row that still has the trigger status can be posted
SelectableTrigger(row) == Len(row) >= MinColumns /\ row[4] = StatusTrigger

\* if len(row) < 4: ... return (lines 330-332): nothing else is asked of
\* the selected row
Selectable(row) == Len(row) >= MinColumns

\* post_now, lines 323-338: the operator's selection and safe_publish
PostNowSelect(p, input) ==
    LET l == proc[p]
        choice == input - 1
    IN
    /\ l.pc = "select"
    /\ input \in Inputs(l.rows)
    /\ IF input = NotANumber \/ choice < 0 \/ choice >= Len(l.rows)
       THEN /\ proc' = [proc EXCEPT ![p] = Exit]
            /\ run' = [run EXCEPT ![p] =
                  [Ended(p, "no selection") EXCEPT !.input = input]]
            /\ UNCHANGED <<success_log, error_log, auto_attempts>>
       ELSE IF ~Selectable(l.rows[choice + 1])
       THEN /\ proc' = [proc EXCEPT ![p] = Exit]
            /\ run' = [run EXCEPT ![p] =
                  [Ended(p, "invalid row") EXCEPT !.input = input]]
            /\ UNCHANGED <<success_log, error_log, auto_attempts>>
       ELSE StartPublish(p, [l EXCEPT !.i = choice + 1, !.input = input],
                         l.rows[choice + 1][2], l.rows[choice + 1][3])
    /\ UNCHANGED <<calendar, analytics_log, posts, clock, nruns>>

\* ------------------------------------------------------------ specification
\* one run at a time: a process starts only when none is running
Next ==
    \/ Tick
    \/ \E p \in SeqProcs, env \in EnvValues, a \in Args :
          (\A q \in Procs : ~Running(q)) /\ Invoke(p, env, a)
    \/ \E p \in SeqProcs : AutoLoad(p)
    \/ \E p \in SeqProcs : AutoRow(p)
    \/ \E p \in SeqProcs : AdapterCall(p)
    \/ \E p \in SeqProcs : Persist(p)
    \/ \E p \in SeqProcs : TrackStart(p)
    \/ \E p \in SeqProcs : TrackCall(p)
    \/ \E p \in SeqProcs : PostNowLoad(p)
    \/ \E p \in SeqProcs : \E input \in Inputs(proc[p].rows) : PostNowSelect(p, input)

Spec == Init /\ [][Next]_vars

\* ------------------------------------------- overlapping live invocations
\* DRY_RUN=False in the environment, no flags: a live auto_schedule_publish
InvokeLive(p) == Invoke(p, "False", NoArgs)

\* the calendars two overlapping invocations are started on
InitOverlap == Init /\ Len(calendar.lines) <= 1 + MaxOverlapRows

\* Nothing in the code keeps a second invocation from starting while one
\* runs (no lock file, no check of a running process): the steps of the two
\* processes interleave.  A load (lines 249-250), a rewrite (lines 294-297)
\* and an append to a ledger are each taken as one step.  Each process is
\* started once, process 1 first (the numbers are only names).
NextOverlap ==
    \/ \E p \in Procs :
          /\ run[p].entry = "none"
          /\ \A q \in Procs : q < p => run[q].entry # "none"
          /\ InvokeLive(p)
    \/ \E p \in Procs : AutoLoad(p)
    \/ \E p \in Procs : AutoRow(p)
    \/ \E p \in Procs : AdapterCall(p)
    \/ \E p \in Procs : Persist(p)
    \/ \E p \in Procs : TrackStart(p)
    \/ \E p \in Procs : TrackCall(p)

SpecOverlap == InitOverlap /\ [][NextOverlap]_vars

\* ------------------------------------------------- two runs, one after the other
\* no flags: auto_schedule_publish, dry or live as DRY_RUN of the environment says
InvokeAuto(p, env) == Invoke(p, env, NoArgs)

\* Two invocations of auto_schedule_publish, the second started after the
\* first has ended; process 1 makes the first and process 2 the second, so
\* that the history of both runs is at hand.
NextPair ==
    \/ Tick
    \/ \E p \in Procs, env \in EnvValues :
          /\ \A q \in Procs : ~Running(q)
          /\ run[p].entry = "none"
          /\ \A q \in Procs : q < p => run[q].entry # "none"
          /\ InvokeAuto(p, env)
    \/ \E p \in Procs : AutoLoad(p)
    \/ \E p \in Procs : AutoRow(p)
    \/ \E p \in Procs : AdapterCall(p)
    \/ \E p \in Procs : Persist(p)
    \/ \E p \in Procs : TrackStart(p)
    \/ \E p \in Procs : TrackCall(p)

SpecPair == Init /\ [][NextPair]_vars

\* ------------------------------------------------------------- interruption
\* mutant: the rows the process holds are written out when it is killed
StoreAfterCrashFlushed(l, stored) ==
    IF l.pc \in {"loop", "publish"} THEN File(<<l.header>> \o l.rows) ELSE stored

\* the calendar after the process was killed: rows[i-1][3] = result (line
\* 287) changed the list in memory only, the file is written at lines
\* 294-297 and nowhere else, and no handler runs when the process dies
StoreAfterCrash(l, stored) == stored

\* the operator (or the system) kills the running process
Crash(p) ==
    /\ Running(p)
    /\ calendar' = StoreAfterCrash(proc[p], calendar)
    /\ proc' = [proc EXCEPT ![p] = Exit]
    /\ run' = [run EXCEPT ![p] =
          Ended(p, IF proc[p].pc \in {"analytics", "tracking"}
                   THEN "interrupted after persist" ELSE "interrupted")]
    /\ UNCHANGED <<success_log, error_log, analytics_log, posts, clock, nruns,
                   auto_attempts>>

NextCrash ==
    \/ NextPair
    \/ \E p \in Procs : Crash(p)

SpecCrash == Init /\ [][NextCrash]_vars

\* ------------------------------------------------- texts around the limit
Alphabet == <<"a", "b", "c", "d", "e", "f", "g">>

\* a text of n characters without whitespace and without "|"
Text(n) == [i \in 1..n |-> Alphabet[(i % Len(Alphabet)) + 1]]

\* lengths just below, at and above the limit of update_status
LongLens == (TweetLimit - 1)..(TweetLimit + MaxOver)

\* calendars of one row due on the first day: a tweet, or a thread of two
\* parts, each text of a length of LongLens
LongCalendars ==
    {File(<<Header, <<"2024-01-05", XTweet, Text(n), StatusTrigger>> >>) :
        n \in LongLens}
    \cup
    {File(<<Header, <<"2024-01-05", XThread,
                     Text(m) \o <<"|", "|", "|">> \o Text(n), StatusTrigger>> >>) :
        m \in LongLens, n \in LongLens}

InitLong ==
    /\ calendar \in LongCalendars
    /\ success_log = NoLog
    /\ error_log = NoLog
    /\ analytics_log = NoLog
    /\ posts = <<>>
    /\ clock = 1
    /\ nruns = 0
    /\ proc = [p \in Procs |-> Idle]
    /\ run = [p \in Procs |-> NoRun]
    /\ auto_attempts = <<>>

\* one invocation, of either entry point, on such a calendar
NextLong ==
    \/ \E p \in SeqProcs, env \in EnvValues, a \in Args :
          nruns = 0 /\ Invoke(p, env, a)
    \/ \E p \in SeqProcs : AutoLoad(p)
    \/ \E p \in SeqProcs : AutoRow(p)
    \/ \E p \in SeqProcs : AdapterCall(p)
    \/ \E p \in SeqProcs : Persist(p)
    \/ \E p \in SeqProcs : TrackStart(p)
    \/ \E p \in SeqProcs : TrackCall(p)
    \/ \E p \in SeqProcs : PostNowLoad(p)
    \/ \E p \in SeqProcs : \E input \in Inputs(proc[p].rows) : PostNowSelect(p, input)

SpecLong == InitLong /\ [][NextLong]_vars

\* ------------------------------------------------------------------ claims
\* the rows the run of p loaded
BeforeRows(p) == Tail(run[p].before.lines)

\* a due row as the specification defines it: the status is the trigger
\* and the planned date is today
ClaimDue(row, today) ==
    Len(row) >= 4 /\ row[4] = "Post Now" /\ ParseDate(row[1]) = today

Finished(a) == a.result # "pending"

\* the adapter calls made during attempt n of the run of p
AttemptCalls(p, n) ==
    LET a == run[p].attempts[n]
    IN  SubSeq(run[p].calls, a.c0 + 1,
               IF Finished(a) THEN a.c1 ELSE Len(run[p].calls))

\* the status of row j as the run of p holds it (later: as it stored it)
StatusNow(p, j) ==
    IF Running(p) THEN proc[p].rows[j][4] ELSE calendar.lines[j + 1][4]

Range(f) == {f[x] : x \in DOMAIN f}

OnPlatform(id, text) ==
    \E n \in 1..Len(posts) : posts[n].id = id /\ posts[n].text = text

InLedgers(id) ==
    \/ \E n \in 1..Len(success_log.recs) : id \in Range(success_log.recs[n].post_id)
    \/ \E n \in 1..Len(analytics_log.recs) : id \in Range(analytics_log.recs[n].post_id)
    \/ \E n \in 1..Len(error_log.recs) : id \in Range(error_log.recs[n].error)

\* C1: in a dry run of auto_schedule_publish the adapter is never called,
\* every publish attempt returns the dry-run label, and every due row of the
\* (valid) calendar gets such an attempt.
C1_DryRunNeverCallsAdapter ==
    \A p \in Procs :
      (run[p].entry = "auto" /\ run[p].dry_run) =>
        /\ run[p].calls = <<>>
        /\ \A n \in 1..Len(run[p].attempts) :
              run[p].attempts[n].result = StatusDryRun
        /\ run[p].ended = "completed" =>
              \A j \in 1..Len(BeforeRows(p)) :
                 ClaimDue(BeforeRows(p)[j], run[p].today) =>
                    /\ \E n \in 1..Len(run[p].attempts) : run[p].attempts[n].row = j
                    /\ calendar.lines[j + 1][4] = StatusDryRun

C1_Witness ==
    \E p \in Procs :
      /\ run[p].entry = "auto" /\ run[p].dry_run /\ run[p].ended = "completed"
      /\ Len(run[p].attempts) = 2
      /\ \E n \in 1..2 : run[p].attempts[n].platform = XThread

\* C2: while and after auto_schedule_publish runs, the stored calendar has
\* the lines it had when the run loaded it, every row that is not due (status
\* not "Post Now", or planned date not today) is stored unchanged, and only
\* due rows are handed to safe_publish.
C2_NonDueRowsUnchanged ==
    \A p \in Procs :
      (run[p].entry = "auto" /\ run[p].before.exists) =>
        /\ Len(calendar.lines) = Len(run[p].before.lines)
        /\ \A j \in 1..Len(calendar.lines) :
              (j = 1 \/ ~ClaimDue(run[p].before.lines[j], run[p].today)) =>
                 calendar.lines[j] = run[p].before.lines[j]
        /\ \A n \in 1..Len(run[p].attempts) :
              ClaimDue(BeforeRows(p)[run[p].attempts[n].row], run[p].today)

C2_Witness ==
    \E p \in Procs :
      /\ run[p].entry = "auto" /\ run[p].ended = "completed"
      /\ \E j, k \in 2..Len(calendar.lines) :
            /\ calendar.lines[j] # run[p].before.lines[j]
            /\ Len(calendar.lines[k]) >= 4
            /\ calendar.lines[k][4] = StatusTrigger
            /\ ParseDate(calendar.lines[k][1]) \notin {InvalidDate, run[p].today}

\* C3: when validation reports an error for some row, the run ends there:
\* no publish attempt, no adapter call, the calendar as it was, no record
\* added to the error ledger.  Without errors (warnings or not) validation
\* does not end the run, and the completed run attempted every due row.
C3_ValidationErrorsBlockRun ==
    \A p \in Procs :
      (run[p].entry = "auto" /\ run[p].before.exists
                             /\ Len(run[p].before.lines) >= 2) =>
        LET v == validate_content_calendar(BeforeRows(p))
        IN  IF v.errors # <<>>
            THEN /\ run[p].ended = "invalid"
                 /\ run[p].attempts = <<>>
                 /\ run[p].calls = <<>>
                 /\ calendar = run[p].before
                 /\ Len(error_log.recs) = run[p].e0
            ELSE /\ run[p].ended \in {"running", "completed"}
                 /\ run[p].ended = "completed" =>
                       \A j \in 1..Len(BeforeRows(p)) :
                          ClaimDue(BeforeRows(p)[j], run[p].today) =>
                             \E n \in 1..Len(run[p].attempts) :
                                run[p].attempts[n].row = j

C3_Witness ==
    \E p \in Procs :
      /\ run[p].entry = "auto" /\ run[p].ended = "invalid"
      /\ ~run[p].dry_run
      /\ \E j \in 1..Len(BeforeRows(p)) :
            /\ ClaimDue(BeforeRows(p)[j], run[p].today)
            /\ RowErrors(j + 1, BeforeRows(p)[j]) = <<>>

\* C4: when the adapter call for part k of a live thread of n >= 2 parts
\* fails, the publish ends with that call (no call for parts k+1..n), the
\* k-1 posts made stay on the platform, the row gets the failure label,
\* exactly one error record and no success record is appended, and no
\* ledger holds an identifier of the k-1 posts.
C4_ThreadFailureAborts ==
    \A p \in Procs : \A n \in 1..Len(run[p].attempts) :
      LET a == run[p].attempts[n]
          cs == AttemptCalls(p, n)
          parts == ThreadParts(a.content)
          k == Len(cs)
      IN  (a.platform = XThread /\ ~a.dry_run /\ Len(parts) >= 2
             /\ k >= 1 /\ ~cs[k].ok) =>
            /\ Finished(a)
            /\ k <= Len(parts)
            /\ \A m \in 1..(k - 1) :
                  /\ cs[m].ok
                  /\ OnPlatform(cs[m].id, Truncate(parts[m]))
                  /\ ~InLedgers(cs[m].id)
            /\ a.result = StatusError
            /\ StatusNow(p, a.row) = StatusError
            /\ a.e1 = a.e0 + 1
            /\ a.s1 = a.s0

C4_Witness ==
    \E p \in Procs : \E n \in 1..Len(run[p].attempts) :
      LET a == run[p].attempts[n]
          cs == AttemptCalls(p, n)
      IN  /\ a.platform = XThread /\ ~a.dry_run /\ Finished(a)
          /\ Len(ThreadParts(a.content)) = 3
          /\ Len(cs) = 2 /\ cs[1].ok /\ ~cs[2].ok

\* C5: the calls of a live thread publish carry the parts in their order;
\* the first is a standalone post and every later one is made only after the
\* call before it returned an identifier, as a reply to that identifier.
C5_ThreadChainsReplies ==
    \A p \in Procs : \A n \in 1..Len(run[p].attempts) :
      LET a == run[p].attempts[n]
          cs == AttemptCalls(p, n)
          parts == ThreadParts(a.content)
      IN  (a.platform = XThread /\ ~a.dry_run) =>
            /\ Len(cs) <= Len(parts)
            /\ \A m \in 1..Len(cs) :
                  /\ cs[m].op = "update_status"
                  /\ cs[m].text = Truncate(parts[m])
                  /\ m = 1 => cs[m].reply_to = None
                  /\ m > 1 => cs[m - 1].ok /\ cs[m].reply_to = cs[m - 1].id
                  /\ cs[m].ok =>
                        \E q \in 1..Len(posts) :
                           posts[q] = [id |-> cs[m].id, text |-> cs[m].text,
                                       reply_to |-> cs[m].reply_to]

C5_Witness ==
    \E p \in Procs : \E n \in 1..Len(run[p].attempts) :
      LET a == run[p].attempts[n]
          cs == AttemptCalls(p, n)
      IN  /\ a.platform = XThread /\ ~a.dry_run /\ Finished(a)
          /\ Len(cs) = 3 /\ \A m \in 1..3 : cs[m].ok

\* C6: a due row published live with every adapter call succeeding gets the
\* success label, and exactly one success record is appended, with the
\* identifiers the adapter returned in posting order, and no error record.
C6_SuccessRecorded ==
    \A p \in Procs : \A n \in 1..Len(run[p].attempts) :
      LET a == run[p].attempts[n]
          cs == AttemptCalls(p, n)
      IN  (run[p].entry = "auto" /\ ~a.dry_run /\ Finished(a)
             /\ cs # <<>> /\ \A m \in 1..Len(cs) : cs[m].ok) =>
            /\ Len(cs) = IF a.platform = XThread
                         THEN Len(ThreadParts(a.content)) ELSE 1
            /\ a.result = StatusPosted
            /\ StatusNow(p, a.row) = StatusPosted
            /\ a.s1 = a.s0 + 1
            /\ a.e1 = a.e0
            /\ success_log.recs[a.s1].platform = a.platform
            /\ success_log.recs[a.s1].post_id = [m \in 1..Len(cs) |-> cs[m].id]

C6_Witness ==
    \E p \in Procs : \E n \in 1..Len(run[p].attempts) :
      LET a == run[p].attempts[n]
          cs == AttemptCalls(p, n)
      IN  /\ run[p].entry = "auto" /\ ~a.dry_run /\ Finished(a)
          /\ a.platform = XThread
          /\ Len(cs) = 3 /\ \A m \in 1..3 : cs[m].ok
          /\ a.result = StatusPosted

\* C7 (as claimed): every call of safe_publish appends the record of its
\* outcome: a success record for Posted or Dry Run, an error record for Error.
C7_EveryPublishLogsItsOutcome ==
    \A p \in Procs : \A n \in 1..Len(run[p].attempts) :
      LET a == run[p].attempts[n]
      IN  Finished(a) =>
            /\ a.result \in {StatusPosted, StatusDryRun} =>
                  a.s1 = a.s0 + 1 /\ a.e1 = a.e0
            /\ a.result = StatusError =>
                  a.e1 = a.e0 + 1 /\ a.s1 = a.s0

\* C8 (as claimed): a run started with --live-run alone runs live and a run
\* started with --dry-run alone runs dry, whatever DRY_RUN was in the
\* environment of the process.
C8_ToggleSelectsMode ==
    \A p \in Procs :
      proc[p].pc \in {"auto", "post_now"} =>
        /\ (proc[p].args.live_run /\ ~proc[p].args.dry_run) => ~proc[p].dry_run
        /\ (proc[p].args.dry_run /\ ~proc[p].args.live_run) => proc[p].dry_run

\* C9 (as claimed): safe_publish with a platform other than "X Tweet" and
\* "X Thread" returns the failure label, appends one error record and calls
\* no adapter, for either value of dry_run.
C9_UnsupportedPlatformFails ==
    \A p \in Procs : \A n \in 1..Len(run[p].attempts) :
      LET a == run[p].attempts[n]
      IN  (Finished(a) /\ a.platform \notin {XTweet, XThread}) =>
            /\ a.result = StatusError
            /\ a.e1 = a.e0 + 1
            /\ a.s1 = a.s0
            /\ AttemptCalls(p, n) = <<>>

\* C9 (amended): with dry_run false, safe_publish with a platform other than
\* "X Tweet" and "X Thread" returns the failure label, appends one error
\* record (unsupported platform) and calls no adapter; with dry_run true it
\* returns the dry-run label, appends nothing and calls no adapter.
C9_UnsupportedPlatformFailsLive ==
    \A p \in Procs : \A n \in 1..Len(run[p].attempts) :
      LET a == run[p].attempts[n]
      IN  (a.platform \notin {XTweet, XThread}) =>
            /\ Finished(a)
            /\ AttemptCalls(p, n) = <<>>
            /\ a.s1 = a.s0
            /\ ~a.dry_run =>
                  /\ a.result = StatusError
                  /\ a.e1 = a.e0 + 1
                  /\ error_log.recs[a.e1].error = <<"Unsupported platform", a.platform>>
                  /\ error_log.recs[a.e1].platform = a.platform
            /\ a.dry_run =>
                  /\ a.result = StatusDryRun
                  /\ a.e1 = a.e0

C9_Witness ==
    \E p \in Procs : \E n \in 1..Len(run[p].attempts) :
      LET a == run[p].attempts[n]
      IN  /\ a.platform = "Facebook" /\ ~a.dry_run /\ Finished(a)
          /\ a.result = StatusError

\* C10: every row a completed auto_schedule_publish run attempted is stored
\* with one of the three outcome labels, never the trigger, and over all the
\* runs no row is attempted twice by auto_schedule_publish.
C10_NoAutomaticRetry ==
    /\ \A m, n \in 1..Len(auto_attempts) :
          m # n => auto_attempts[m] # auto_attempts[n]
    /\ \A p \in Procs :
          (run[p].entry = "auto" /\ run[p].ended = "completed") =>
             \A n \in 1..Len(run[p].attempts) :
                calendar.lines[run[p].attempts[n].row + 1][4]
                   \in {StatusPosted, StatusDryRun, StatusError}

C10_Witness ==
    \E p \in Procs :
      /\ run[p].entry = "auto" /\ run[p].ended = "completed"
      /\ run[p].attempts = <<>>
      /\ \E m \in 1..Len(auto_attempts) :
            LET row == calendar.lines[auto_attempts[m] + 1]
            IN  row[4] = StatusError /\ ParseDate(row[1]) = run[p].today

\* C11: two live auto_schedule_publish runs overlap.  Whenever both loaded
\* the calendar with row j due (so neither had persisted when the other
\* loaded) and both completed, both handed row j to safe_publish; where both
\* attempts returned the success label, two posts with different identifiers
\* carry the row's text.  The witness is the interleaving of the claim.
C11_OverlapDoublePosts ==
    \A p, q \in Procs :
      (/\ p # q
       /\ run[p].entry = "auto" /\ ~run[p].dry_run /\ run[p].ended = "completed"
       /\ run[q].entry = "auto" /\ ~run[q].dry_run /\ run[q].ended = "completed") =>
        \A j \in 1..Min(Len(BeforeRows(p)), Len(BeforeRows(q))) :
          (/\ ClaimDue(BeforeRows(p)[j], run[p].today)
           /\ ClaimDue(BeforeRows(q)[j], run[q].today)) =>
            \E m \in 1..Len(run[p].attempts), n \in 1..Len(run[q].attempts) :
              LET a == run[p].attempts[m]
                  b == run[q].attempts[n]
                  ca == AttemptCalls(p, m)
                  cb == AttemptCalls(q, n)
              IN  /\ a.row = j /\ b.row = j
                  /\ a.content = b.content
                  /\ (a.result = StatusPosted /\ b.result = StatusPosted) =>
                        /\ Len(ca) = Len(cb) /\ Len(ca) >= 1
                        /\ \A c \in 1..Len(ca) :
                              /\ ca[c].id # cb[c].id
                              /\ ca[c].text = cb[c].text
                              /\ OnPlatform(ca[c].id, ca[c].text)
                              /\ OnPlatform(cb[c].id, cb[c].text)

C11_Witness ==
    /\ \A p \in Procs :
          /\ run[p].entry = "auto" /\ ~run[p].dry_run /\ run[p].ended = "completed"
          /\ run[p].before = run[1].before
          /\ Len(run[p].attempts) = 1
          /\ run[p].attempts[1].row = 1
          /\ run[p].attempts[1].result = StatusPosted
          /\ run[p].attempts[1].platform = XTweet
    /\ Len(posts) = 2
    /\ posts[1].text = posts[2].text
    /\ posts[1].id # posts[2].id
    /\ calendar.lines[2][4] = StatusPosted
    /\ Len(success_log.recs) = 2

\* C12: safe_publish always returns to its caller, with one of the three
\* labels: the dry-run label when dry_run is true; otherwise the error label
\* when the client is unavailable, the platform unsupported, the thread
\* empty or an adapter call failed, and the success label when every call
\* succeeded.  The error label comes with exactly one error record and no
\* success record.  No attempt is left without a label by an exception.
C12_PublishAlwaysReturnsLabel ==
    \A p \in Procs : \A n \in 1..Len(run[p].attempts) :
      LET a == run[p].attempts[n]
          cs == AttemptCalls(p, n)
          parts == IF a.platform = XThread THEN Len(ThreadParts(a.content)) ELSE 1
      IN  /\ a.result \in {"pending", StatusPosted, StatusDryRun, StatusError}
          /\ a.result = "pending" =>
                /\ n = Len(run[p].attempts)
                /\ proc[p].pc = "publish"
                /\ \A c \in 1..Len(cs) : cs[c].ok
          /\ Finished(a) =>
                /\ a.dry_run => a.result = StatusDryRun /\ cs = <<>>
                /\ (~a.dry_run /\ a.platform \notin {XTweet, XThread}) =>
                      a.result = StatusError
                /\ (~a.dry_run /\ cs = <<>>) => a.result = StatusError
                /\ (~a.dry_run /\ cs # <<>> /\ ~cs[Len(cs)].ok) =>
                      a.result = StatusError
                /\ (~a.dry_run /\ cs # <<>> /\ cs[Len(cs)].ok) =>
                      a.result = StatusPosted /\ Len(cs) = parts
                /\ a.result = StatusError <=> a.e1 = a.e0 + 1
                /\ a.result = StatusError => a.s1 = a.s0
                /\ a.result # StatusError => a.e1 = a.e0

C12_Witness ==
    \E p \in Procs :
      /\ Len(run[p].attempts) = 2
      /\ LET a == run[p].attempts[1]
              b == run[p].attempts[2]
         IN  /\ ~a.dry_run /\ a.platform = XTweet /\ a.result = StatusError
             /\ AttemptCalls(p, 1) = <<>>
             /\ b.platform = XThread /\ b.result = StatusError
             /\ Len(AttemptCalls(p, 2)) = 2

\* C13: an auto_schedule_publish run that finds no calendar writes one with
\* the header date_planned, platform, content, status and the two example
\* rows, and ends: no publish attempt, no adapter call, no post, and no
\* record added to the success or the error ledger.
C13_BootstrapCreatesSampleAndEnds ==
    \A p \in Procs :
      (run[p].entry = "auto" /\ ~run[p].before.exists
                             /\ run[p].ended # "running") =>
        /\ run[p].ended = "bootstrap"
        /\ proc[p].pc = "exit"
        /\ calendar.exists
        /\ calendar.lines =
              << <<"date_planned", "platform", "content", "status">>,
                 <<"2023-12-15", "X Tweet", SampleTweet, "Post Now">>,
                 <<"2023-12-15", "X Thread", SampleThread, "Post Now">> >>
        /\ run[p].attempts = <<>>
        /\ run[p].calls = <<>>
        /\ posts = <<>>
        /\ Len(success_log.recs) = run[p].s0
        /\ Len(error_log.recs) = run[p].e0

C13_Witness ==
    \E p \in Procs :
      /\ run[p].entry = "auto" /\ ~run[p].dry_run
      /\ run[p].ended = "bootstrap"
      /\ ~run[p].before.exists /\ calendar.exists
      /\ Len(calendar.lines) = 3
      /\ success_log.header /\ success_log.recs = <<>>

\* the get_status calls of the run of p, in order
Queries(p) ==
    LET IsQuery(c) == c.op = "get_status"
    IN  SelectSeq(run[p].calls, IsQuery)

\* the success records the analytics pass is to query: the post id is
\* present and no placeholder
ClaimTracked(f) ==
    LET HasId(rec) == rec.post_id \notin {<<>>, <<"N/A">>, <<"DryRun">>}
    IN  SelectSeq(f.recs, HasId)

\* C14 (as claimed): the adapter is queried only in a live
\* auto_schedule_publish run in which a row was posted, and never by
\* post_now; a pass that made a query has, when the run is complete, queried
\* every success record of the ledger that has a post id, in ledger order,
\* failed queries included, and added no error record.
C14_AnalyticsQueriesEveryRecord ==
    \A p \in Procs :
      /\ (proc[p].pc \in {"analytics", "tracking"} \/ Queries(p) # <<>>) =>
            /\ run[p].entry = "auto" /\ ~run[p].dry_run
            /\ \E n \in 1..Len(run[p].attempts) :
                  run[p].attempts[n].result = StatusPosted
      /\ (run[p].ended = "completed" /\ Queries(p) # <<>>) =>
            /\ Len(Queries(p)) = Len(ClaimTracked(success_log))
            /\ \A n \in 1..Len(Queries(p)) :
                  Queries(p)[n].text = ClaimTracked(success_log)[n].post_id
            /\ Len(error_log.recs) =
                  run[p].attempts[Len(run[p].attempts)].e1

\* C15: the text of every update_status call of a live publish is the
\* row's content (a tweet) or the part at the call's position (a thread) if
\* that has at most 280 characters; otherwise it has exactly 280 characters,
\* the first 277 of the content or part followed by "...".  Each part of a
\* thread is cut on its own.
C15_LongTextTruncatedTo280 ==
    \A p \in Procs : \A n \in 1..Len(run[p].attempts) :
      LET a == run[p].attempts[n]
          cs == AttemptCalls(p, n)
          src(c) == IF a.platform = XThread THEN ThreadParts(a.content)[c]
                    ELSE a.content
      IN  \A c \in 1..Len(cs) :
            IF Len(src(c)) > 280
            THEN /\ Len(cs[c].text) = 280
                 /\ \A i \in 1..277 : cs[c].text[i] = src(c)[i]
                 /\ \A i \in 278..280 : cs[c].text[i] = "."
                 /\ cs[c].ok => OnPlatform(cs[c].id, cs[c].text)
            ELSE /\ cs[c].text = src(c)
                 /\ cs[c].ok => OnPlatform(cs[c].id, cs[c].text)

C15_Witness ==
    \E p \in Procs : \E n \in 1..Len(run[p].attempts) :
      LET a == run[p].attempts[n]
          cs == AttemptCalls(p, n)
          parts == ThreadParts(a.content)
      IN  /\ a.platform = XThread /\ a.result = StatusPosted
          /\ Len(parts) = 2 /\ Len(cs) = 2
          /\ Len(parts[1]) = 280 /\ cs[1].text = parts[1]
          /\ Len(parts[2]) = 282 /\ Len(cs[2].text) = 280
          /\ cs[2].text # SubSeq(parts[2], 1, 280)
          /\ Len(posts[2].text) = 280

\* C16: a post_now run in which the operator typed the number of a row of
\* four columns makes exactly one call of safe_publish, for that row,
\* whatever its date and status, and stores the calendar it loaded with
\* that row's status replaced by the label returned; the store is untouched
\* until then.  Any other input (no number, a number out of range, a short
\* row) ends the run with no attempt and nothing changed.
C16_ManualPublishOneRow ==
    \A p \in Procs :
      (run[p].entry = "post_now" /\ run[p].before.exists) =>
        LET rows == BeforeRows(p)
            j == run[p].input
        IN  /\ Len(run[p].attempts) <= 1
            /\ run[p].ended = "running" => calendar = run[p].before
            /\ run[p].ended # "running" =>
                  IF j \in 1..Len(rows) /\ Len(rows[j]) >= 4
                  THEN /\ run[p].ended = "completed"
                       /\ Len(run[p].attempts) = 1
                       /\ run[p].attempts[1].row = j
                       /\ run[p].attempts[1].platform = rows[j][2]
                       /\ run[p].attempts[1].content = rows[j][3]
                       /\ run[p].attempts[1].result
                             \in {StatusPosted, StatusDryRun, StatusError}
                       /\ calendar.exists
                       /\ Len(calendar.lines) = Len(run[p].before.lines)
                       /\ \A k \in 1..Len(calendar.lines) :
                             calendar.lines[k] =
                               IF k = j + 1
                               THEN [rows[j] EXCEPT ![4] = run[p].attempts[1].result]
                               ELSE run[p].before.lines[k]
                  ELSE /\ run[p].attempts = <<>>
                       /\ run[p].calls = <<>>
                       /\ calendar = run[p].before
                       /\ Len(success_log.recs) = run[p].s0
                       /\ Len(error_log.recs) = run[p].e0

C16_Witness ==
    \E p \in Procs :
      /\ run[p].entry = "post_now" /\ run[p].ended = "completed"
      /\ ~run[p].dry_run
      /\ run[p].input = 2
      /\ Len(BeforeRows(p)) = 2
      /\ BeforeRows(p)[2][4] = StatusPosted
      /\ ParseDate(BeforeRows(p)[2][1]) # run[p].today
      /\ run[p].attempts[1].result = StatusPosted
      /\ calendar.lines[2] = run[p].before.lines[2]
      /\ Len(posts) = 2

\* the run of p has rewritten the calendar
Persisted(p) ==
    proc[p].pc \in {"analytics", "tracking"} \/ run[p].ended = "completed"

\* the label of the attempt the run of p made for row j ("none": no attempt)
LabelOf(p, j) ==
    IF \E n \in 1..Len(run[p].attempts) : run[p].attempts[n].row = j
    THEN LET n == CHOOSE n \in 1..Len(run[p].attempts) : run[p].attempts[n].row = j
         IN  run[p].attempts[n].result
    ELSE "none"

\* C17: in an auto_schedule_publish run the attempts are made for due rows
\* in increasing row order, one after the other; the run's list of rows
\* shows each finished attempt's label at its row and every other row as
\* loaded; the store is untouched until the loop is over; then every due
\* row has been attempted, failed attempts before it or not, and the store
\* holds the loaded rows with the labels at the attempted rows.
C17_DueRowsInOrderPersistAtEnd ==
    \A p \in Procs :
      (run[p].entry = "auto" /\ run[p].before.exists
          /\ run[p].ended \in {"running", "completed"}) =>
        LET rows == BeforeRows(p)
            att == run[p].attempts
        IN  /\ \A n \in 1..Len(att) :
                  /\ ClaimDue(rows[att[n].row], run[p].today)
                  /\ n < Len(att) =>
                        /\ Finished(att[n])
                        /\ att[n].row < att[n + 1].row
                        /\ att[n].c1 <= att[n + 1].c0
            /\ proc[p].pc \in {"loop", "publish"} =>
                  /\ calendar = run[p].before
                  /\ \A j \in 1..Len(rows) :
                        proc[p].rows[j] =
                          IF LabelOf(p, j) \in {"none", "pending"} THEN rows[j]
                          ELSE [rows[j] EXCEPT ![4] = LabelOf(p, j)]
            /\ Persisted(p) =>
                  /\ \A j \in 1..Len(rows) :
                        ClaimDue(rows[j], run[p].today) <=> LabelOf(p, j) # "none"
                  /\ \A n \in 1..Len(att) : Finished(att[n])
                  /\ calendar.lines[1] = run[p].before.lines[1]
                  /\ Len(calendar.lines) = Len(run[p].before.lines)
                  /\ \A j \in 1..Len(rows) :
                        calendar.lines[j + 1] =
                          IF LabelOf(p, j) = "none" THEN rows[j]
                          ELSE [rows[j] EXCEPT ![4] = LabelOf(p, j)]

C17_Witness ==
    \E p \in Procs :
      /\ run[p].entry = "auto" /\ ~run[p].dry_run /\ run[p].ended = "completed"
      /\ Len(run[p].attempts) = 2
      /\ run[p].attempts[1].row = 1
      /\ run[p].attempts[1].result = StatusError
      /\ run[p].attempts[2].row = 2
      /\ run[p].attempts[2].result = StatusPosted
      /\ calendar.lines[2][4] = StatusError
      /\ calendar.lines[3][4] = StatusPosted

\* C18: the first of two runs was a live auto_schedule_publish killed in
\* its loop after it had posted row j.  Then the posts of row j are on the
\* platform; until the next run starts the store is as the killed run
\* loaded it, row j with the trigger status; and an auto_schedule_publish
\* run that follows on the same date loads that same calendar and, once
\* its loop is over, has attempted row j again: where that attempt returned
\* the success label, the row's text is on the platform a second time
\* under other identifiers.
C18_CrashBeforePersistReposts ==
    \A p, q \in Procs :
      (/\ p < q
       /\ run[p].entry = "auto" /\ ~run[p].dry_run
       /\ run[p].ended = "interrupted") =>
        \A n \in 1..Len(run[p].attempts) :
          LET a == run[p].attempts[n]
              cs == AttemptCalls(p, n)
              j == a.row
          IN  a.result = StatusPosted =>
                /\ cs # <<>>
                /\ \A c \in 1..Len(cs) : OnPlatform(cs[c].id, cs[c].text)
                /\ run[q].entry = "none" =>
                      /\ calendar = run[p].before
                      /\ calendar.lines[j + 1][4] = "Post Now"
                /\ (run[q].entry = "auto" /\ run[q].today = run[p].today) =>
                      /\ run[q].before.exists => run[q].before = run[p].before
                      /\ Persisted(q) =>
                            \E m \in 1..Len(run[q].attempts) :
                              LET b == run[q].attempts[m]
                                  cb == AttemptCalls(q, m)
                              IN  /\ b.row = j
                                  /\ b.content = a.content
                                  /\ b.result = StatusPosted =>
                                        /\ Len(cb) = Len(cs)
                                        /\ \A c \in 1..Len(cs) :
                                              /\ cb[c].id # cs[c].id
                                              /\ cb[c].text = cs[c].text
                                              /\ OnPlatform(cb[c].id, cb[c].text)

C18_Witness ==
    /\ run[1].entry = "auto" /\ ~run[1].dry_run
    /\ run[1].ended = "interrupted"
    /\ Len(run[1].attempts) = 1
    /\ run[1].attempts[1].result = StatusPosted
    /\ run[2].entry = "auto" /\ ~run[2].dry_run
    /\ run[2].today = run[1].today
    /\ run[2].ended = "completed"
    /\ Len(run[2].attempts) = 1
    /\ run[2].attempts[1].row = run[1].attempts[1].row
    /\ run[2].attempts[1].result = StatusPosted
    /\ Len(posts) = 2
    /\ posts[1].text = posts[2].text
    /\ Len(success_log.recs) = 2

\* C19: the first of two runs was a completed dry run of
\* auto_schedule_publish.  Every row that was due when it loaded the
\* calendar is stored with the dry-run label instead of the trigger, with
\* nothing posted; a live auto_schedule_publish run that follows on the
\* same date loads the row with that label and makes no attempt and no
\* adapter call for it, and leaves the label in the store.
C19_DryRunConsumesTrigger ==
    \A p, q \in Procs :
      (/\ p < q
       /\ run[p].entry = "auto" /\ run[p].dry_run
       /\ run[p].ended = "completed") =>
        \A j \in 1..Len(BeforeRows(p)) :
          ClaimDue(BeforeRows(p)[j], run[p].today) =>
            /\ run[p].calls = <<>>
            /\ calendar.lines[j + 1][4] = "Dry Run"
            /\ (run[q].entry = "auto" /\ ~run[q].dry_run
                   /\ run[q].today = run[p].today) =>
                  /\ run[q].before.exists =>
                        run[q].before.lines[j + 1] =
                          [BeforeRows(p)[j] EXCEPT ![4] = "Dry Run"]
                  /\ \A n \in 1..Len(run[q].attempts) :
                        run[q].attempts[n].row # j
                  /\ \A c \in 1..Len(run[q].calls) :
                        run[q].calls[c].op # "update_status"
                  /\ posts = <<>>

C19_Witness ==
    /\ run[1].entry = "auto" /\ run[1].dry_run /\ run[1].ended = "completed"
    /\ Len(run[1].attempts) = 2
    /\ run[2].entry = "auto" /\ ~run[2].dry_run /\ run[2].ended = "completed"
    /\ run[2].today = run[1].today
    /\ run[2].before.exists
    /\ run[2].attempts = <<>>
    /\ calendar.lines[2][4] = StatusDryRun
    /\ calendar.lines[3][4] = StatusDryRun
    /\ posts = <<>>

\* row j of the calendar was handed to safe_publish by the run of some process
Attempted(j) ==
    \E p \in Procs : \E n \in 1..Len(run[p].attempts) : run[p].attempts[n].row = j

\* a step of the program keeps the stored calendar but for status fields
CalendarKept ==
    calendar.exists =>
      /\ calendar'.exists
      /\ Len(calendar'.lines) = Len(calendar.lines)
      /\ calendar'.lines[1] = calendar.lines[1]
      /\ \A k \in 2..Len(calendar.lines) :
            \/ calendar'.lines[k] = calendar.lines[k]
            \/ /\ Len(calendar.lines[k]) >= 4
               /\ Len(calendar'.lines[k]) = Len(calendar.lines[k])
               /\ \A f \in 1..Len(calendar.lines[k]) :
                     f # 4 => calendar'.lines[k][f] = calendar.lines[k][f]
               /\ calendar'.lines[k][4] \in {StatusPosted, StatusDryRun, StatusError}
               /\ Attempted(k - 1)

\* C20: every step of every sequence of auto_schedule_publish and post_now
\* runs leaves an existing calendar with its header, its number of rows and
\* their order, and each row's fields; only the status of a row that was
\* attempted in the run changes, to one of the three labels.
C20_RowsNeverLost == [][CalendarKept]_vars

C20_Witness ==
    /\ nruns = 2
    /\ run[1].entry = "post_now" /\ run[1].ended = "completed"
    /\ run[1].input = 2
    /\ Len(calendar.lines) = 3
    /\ BeforeRows(1)[1][4] = StatusPosted
    /\ calendar.lines[2] = [RowList[1] EXCEPT ![4] = StatusPosted]
    /\ calendar.lines[3] = [RowList[3] EXCEPT ![4] = StatusPosted]

====
